---- MODULE Spec2Model ----
(***************************************************************************)
(* Payment reconciliation and member-card ledger of PetMaster-fastapi.     *)
(*                                                                         *)
(* The persisted state is the tables the payment code reads and writes    *)
(* (payments, member_cards, card_recharge_records) with the users' rows    *)
(* and their points.  Every request                                        *)
(* runs on its own SQLAlchemy session (app/database.py get_db): a handler  *)
(* first reads rows into ORM objects, changes them in memory, and only     *)
(* db.commit() writes the changed columns back.  A handler is therefore a  *)
(* sequence of steps, one per transaction boundary.  Spec interleaves the   *)
(* steps of two sessions; SpecSeq runs one request at a time, and a        *)
(* request may die between two of its steps; SpecSeqNoCrash runs one       *)
(* request at a time, each to its response; SpecRace lets one session      *)
(* deliver success notifications while the other polls; SpecCards runs the *)
(* administrator's requests on two sessions; SpecAnyAmount adds the        *)
(* payment creations that check no card, with any requested amount;        *)
(* SpecSettle is the life of one self-service payment; SpecRelated creates *)
(* payments of every related_type; SpecAccounts and SpecWebhook add the    *)
(* deletion of the member's account, one request at a time and against     *)
(* arriving notifications; SpecReissue opens a card again after a          *)
(* cancellation; SpecPoints and SpecPointsRace run the points handlers     *)
(* (users.points, point_records) one at a time and on two sessions.        *)
(***************************************************************************)
EXTENDS Integers, Sequences, FiniteSets

\* ------------------------------------------------------------ bounds
MaxCards == 1
MaxPayments == 1
MaxRecords == 2
MaxClock == 2
MaxIssues == 2
MaxPointRecords == 3

\* ------------------------------------------------------------ values
NULL == 0
ADMIN_ID == 2

PENDING == "pending"
PAID == "paid"
CANCELLED == "cancelled"

Sessions == {"s1", "s2"}
\* The members that hold cards and pay; ADMIN_ID is the administrator that operates
\* the member-card desk.
Users == {1}
CardIds == 1..MaxCards
Refs == 1..MaxPayments
\* Amounts in yuan: what an admin recharges, and what a self-service payment asks for.
RechargeAmounts == {1}
PaymentAmounts == {2}
TradeStatuses == {"TRADE_SUCCESS", "TRADE_CLOSED", "TRADE_FINISHED", "WAIT_BUYER_PAY"}

\* The provider's transaction number for a merchant order: the gateway
\* assigns one trade_no to one out_trade_no.
TradeNoOf(ref) == ref

\* A notification body as the handlers receive it (data: dict).
\* complete: whether trade_no, out_trade_no, trade_status and total_amount are all there.
\* Correctly signed bodies come for every order and every trade status; an unsigned,
\* a wrongly signed and an incomplete body each claim that order 1 was paid.
Payloads ==
    [complete : {TRUE}, sign : {"good"}, out_trade_no : Refs, trade_status : TradeStatuses]
    \cup [complete : {TRUE}, sign : {"", "bad"}, out_trade_no : {1},
          trade_status : {"TRADE_SUCCESS"}]
    \cup [complete : {FALSE}, sign : {"good"}, out_trade_no : {1},
          trade_status : {"TRADE_SUCCESS"}]

VARIABLES
    payments,            \* out_trade_no -> Payment row
    cards,               \* member_cards.id -> MemberCard row
    records,             \* card_recharge_records, in order of insertion
    nextCardId,          \* member_cards autoincrement
    users,               \* ids of the rows of the users table
    user_points,         \* users.id -> the row's points and total_points
    point_records,       \* point_records, in order of insertion
    pc,                  \* session -> position in its handler
    loc                  \* session -> the handler's local variables

vars == <<payments, cards, records, nextCardId, users, user_points, point_records, pc, loc>>
ledger == <<user_points, point_records>>
db == <<payments, cards, records, nextCardId, users, ledger>>

NoLoc ==
    [h |-> "none", user |-> 0, ref |-> 0, card |-> 0, amount |-> 0, ts |-> "",
     pstatus |-> "none", trade |-> 0, bal |-> 0, tot |-> 0, cstat |-> "none",
     stamp |-> 0, points |-> 0, total_points |-> 0, transaction |-> 0,
     ret |-> "none", message |-> ""]

\* ------------------------------------------------------------ rows
\* get_current_user(): the member who is logged in and asks for a payment.
current_user == 1

NewPaymentFor(amount, related_id, related_type) ==
    [user_id |-> current_user,
     amount |-> amount, status |-> PENDING, related_id |-> related_id,
     related_type |-> related_type, trade_no |-> NULL,
     notify_data |-> FALSE, paid_at |-> NULL]

NewPayment(amount, card_id) == NewPaymentFor(amount, card_id, "member_card_recharge")

NewCard(user_id) ==
    [user_id |-> user_id, balance |-> 0, total_recharge |-> 0, status |-> "active"]

RechargeRecord(card_id, amount, balance_before, balance_after, transaction_no, operator_id) ==
    [member_card_id |-> card_id, amount |-> amount,
     balance_before |-> balance_before, balance_after |-> balance_after,
     transaction_no |-> transaction_no, operator_id |-> operator_id]

RecordsOfCard(card_id) == SelectSeq(records, LAMBDA r : r.member_card_id = card_id)

PointRecord(user_id, points, balance, type, transaction_id, operator_id) ==
    [user_id |-> user_id, points |-> points, balance |-> balance, type |-> type,
     transaction_id |-> transaction_id, operator_id |-> operator_id]

\* The self-service (operator_id NULL) records carrying a payment's trade number.
RecordsOfPaymentIn(rows, ref) ==
    SelectSeq(rows, LAMBDA r : r.transaction_no = TradeNoOf(ref) /\ r.operator_id = NULL)

RecordsOfPayment(ref) == RecordsOfPaymentIn(records, ref)

RECURSIVE SumAmounts(_)
SumAmounts(rs) == IF rs = << >> THEN 0 ELSE Head(rs).amount + SumAmounts(Tail(rs))

\* ------------------------------------------------------------ gateway
\* get_alipay_client(): the client of the process that serves the request.  The
\* tables outlive the processes, so requests on the same rows can meet clients built
\* from different settings: with or without usable keys (client_initialized), for
\* the sandbox or for production (ALIPAY_USE_SANDBOX).
AlipayClients == [client_initialized : BOOLEAN, use_sandbox : BOOLEAN]

verify_notify(alipay_client, data) ==
    IF ~data.complete THEN FALSE
    ELSE IF data.sign = "" THEN FALSE
    ELSE IF ~alipay_client.client_initialized THEN alipay_client.use_sandbox
    ELSE data.sign = "good"

\* ------------------------------------------------------------ session steps
Goto(s, label, l) ==
    /\ pc' = [pc EXCEPT ![s] = label]
    /\ loc' = [loc EXCEPT ![s] = l]

\* The handler returns ret: its locals are gone and the response is on its way.
Return(s, ret) == Goto(s, "done", [NoLoc EXCEPT !.ret = ret])

\* A notification handler returns {"code": code, "message": message}.  The messages:
\* "verify_failed" 验证失败, "payment_not_found" 支付记录不存在, "already_processed" 已处理,
\* "card_not_found" 会员卡不存在, "recharged" 充值成功, "completed" 处理完成,
\* "processed" 处理成功, "exception" str(e), and "integrity_error" for the 500 of a
\* commit that the database refused.  A poll returns the payment with its
\* status and a creation its pay_url: message holds them.  The desk's recharge
\* returns its "recharge_record", or the 400 "card_status_abnormal" 会员卡状态异常;
\* freeze and unfreeze answer 400 "not_freezable" 已处于冻结状态 / 已注销 and
\* "not_frozen" 会员卡未冻结.
Reply(s, code, message) ==
    Goto(s, "done", [NoLoc EXCEPT !.ret = code, !.message = message])

Init ==
    /\ payments = << >>
    /\ cards = << >>
    /\ records = << >>
    /\ nextCardId = 1
    /\ users = Users \cup {ADMIN_ID}
    /\ user_points = [u \in Users \cup {ADMIN_ID} |-> [points |-> 0, total_points |-> 0]]
    /\ point_records = << >>
    /\ pc = [s \in Sessions |-> "idle"]
    /\ loc = [s \in Sessions |-> NoLoc]

\* The request dies between two steps (worker killed, connection lost): get_db
\* closes the session and whatever was not committed is gone.
Abort(s) ==
    /\ pc[s] \notin {"idle", "done"}
    /\ Goto(s, "idle", NoLoc)
    /\ UNCHANGED db

\* The response is delivered and get_db closes the session: the next request may come.
Finish(s) ==
    /\ pc[s] = "done"
    /\ Goto(s, "idle", NoLoc)
    /\ UNCHANGED db

\* ------------------------------------------------------------ member cards
CardOfUser(user_id) == {c \in DOMAIN cards : cards[c].user_id = user_id}

\* A member_cards table without the unique index on user_id.
UniqueNotEnforced(user_id) == FALSE

\* member_cards.user_id is unique: the INSERT of a second card of a user raises
\* IntegrityError.
UserIdTaken(user_id) == CardOfUser(user_id) # {}

\* POST /member_cards/ up to db.commit().  The request is admitted while the
\* autoincrement is within last_card_id.
create_member_card_upto(s, user_id, last_card_id) ==
    /\ pc[s] = "idle"
    /\ LET l == [NoLoc EXCEPT !.h = "create_member_card", !.user = user_id]
       IN IF ADMIN_ID \notin users \/ user_id \notin users
          THEN Return(s, "error")
          ELSE IF CardOfUser(user_id) # {}
          THEN Return(s, "error")
          ELSE /\ nextCardId <= last_card_id
               /\ Goto(s, "create_card_commit", l)
    /\ UNCHANGED db

create_member_card(s, user_id) == create_member_card_upto(s, user_id, MaxCards)

\* db.add(member_card); db.commit()
create_member_card_commit(s) ==
    /\ pc[s] = "create_card_commit"
    /\ IF UserIdTaken(loc[s].user)
       THEN /\ Reply(s, "error", "integrity_error")
            /\ UNCHANGED <<cards, nextCardId>>
       ELSE /\ cards' = [c \in DOMAIN cards \cup {nextCardId} |->
                            IF c = nextCardId THEN NewCard(loc[s].user) ELSE cards[c]]
            /\ nextCardId' = nextCardId + 1
            /\ Return(s, "ok")
    /\ UNCHANGED <<payments, records, users, ledger>>

\* A recharge that refuses cancelled cards only.
RechargeRefusedOnlyCancelled(status) == status = "cancelled"

\* if card.status != "active": 400
RechargeRefused(status) == status # "active"

\* POST /member_cards/{card_id}/recharge up to db.commit()
recharge_member_card(s, card_id, amount) ==
    /\ pc[s] = "idle"
    /\ LET l == [NoLoc EXCEPT !.h = "recharge_member_card", !.card = card_id, !.amount = amount]
       IN IF ADMIN_ID \notin users
          THEN Return(s, "error")
          ELSE IF card_id \notin DOMAIN cards
          THEN Return(s, "error")
          ELSE IF RechargeRefused(cards[card_id].status)
          THEN Reply(s, "error", "card_status_abnormal")
          ELSE /\ Len(records) < MaxRecords
               /\ Goto(s, "recharge_commit",
                       [l EXCEPT !.bal = cards[card_id].balance,
                                 !.tot = cards[card_id].total_recharge,
                                 !.cstat = cards[card_id].status])
    /\ UNCHANGED db

\* A credit that inserts the recharge record and loses the card's new balance.
CreditCardRecordOnly(card_id, balance_before, total_before, amount, transaction_no, operator_id) ==
    /\ cards' = cards
    /\ records' = Append(records,
                         RechargeRecord(card_id, amount, balance_before,
                                        balance_before + amount, transaction_no, operator_id))

\* The flush of a credit: the card row gets the balance and total computed from the
\* values the session read, and the recharge record is inserted.  The UPDATE of a
\* row that is gone matches nothing and the flush raises.
CreditCard(card_id, balance_before, total_before, amount, transaction_no, operator_id) ==
    /\ cards' = [cards EXCEPT ![card_id].balance = balance_before + amount,
                              ![card_id].total_recharge = total_before + amount]
    /\ records' = Append(records,
                         RechargeRecord(card_id, amount, balance_before,
                                        balance_before + amount, transaction_no, operator_id))

\* db.add(recharge_record); db.commit()
recharge_member_card_commit(s) ==
    /\ pc[s] = "recharge_commit"
    /\ IF loc[s].card \notin DOMAIN cards \/ ADMIN_ID \notin users
       THEN /\ Return(s, "error")
            /\ UNCHANGED <<cards, records>>
       ELSE /\ CreditCard(loc[s].card, loc[s].bal, loc[s].tot, loc[s].amount, NULL, ADMIN_ID)
            /\ Reply(s, "ok", "recharge_record")
    /\ UNCHANGED <<payments, nextCardId, users, ledger>>

\* A freeze that accepts every card.
FreezeNeverRefused(status) == FALSE

\* if card.status == "frozen": 400; if card.status == "cancelled": 400
FreezeRefused(status) == status \in {"frozen", "cancelled"}

\* POST /member_cards/{card_id}/freeze
freeze_member_card(s, card_id) ==
    /\ pc[s] = "idle"
    /\ IF ADMIN_ID \notin users \/ card_id \notin DOMAIN cards
       THEN Return(s, "error") /\ UNCHANGED cards
       ELSE IF FreezeRefused(cards[card_id].status)
       THEN Reply(s, "error", "not_freezable") /\ UNCHANGED cards
       ELSE /\ cards' = [cards EXCEPT ![card_id].status = "frozen"]
            /\ Return(s, "ok")
    /\ UNCHANGED <<payments, records, nextCardId, users, ledger>>

\* POST /member_cards/{card_id}/unfreeze
unfreeze_member_card(s, card_id) ==
    /\ pc[s] = "idle"
    /\ IF ADMIN_ID \notin users \/ card_id \notin DOMAIN cards
       THEN Return(s, "error") /\ UNCHANGED cards
       ELSE IF cards[card_id].status # "frozen"
       THEN Reply(s, "error", "not_frozen") /\ UNCHANGED cards
       ELSE /\ cards' = [cards EXCEPT ![card_id].status = "active"]
            /\ Return(s, "ok")
    /\ UNCHANGED <<payments, records, nextCardId, users, ledger>>

\* POST /member_cards/{card_id}/cancel up to db.commit()
cancel_member_card(s, card_id) ==
    /\ pc[s] = "idle"
    /\ LET l == [NoLoc EXCEPT !.h = "cancel_member_card", !.card = card_id]
       IN IF ADMIN_ID \notin users \/ card_id \notin DOMAIN cards
          THEN Return(s, "error")
          ELSE IF cards[card_id].balance > 0
          THEN Return(s, "error")
          ELSE LET user_id == cards[card_id].user_id
                   points == IF user_id \in users THEN user_points[user_id].points ELSE 0
               IN /\ points > 0 => Len(point_records) < MaxPointRecords
                  /\ Goto(s, "cancel_commit",
                          [l EXCEPT !.bal = cards[card_id].balance,
                                    !.user = user_id, !.points = points])
    /\ UNCHANGED db

\* A cancellation that keeps the row and marks it cancelled.
MarkCardCancelled(card_id) == cards' = [cards EXCEPT ![card_id].status = "cancelled"] /\ records' = records

\* db.delete(card): the row is removed, and its recharge records go with it
\* (MemberCard.recharge_records cascade "all, delete-orphan").
DeleteCard(card_id) ==
    /\ cards' = [c \in DOMAIN cards \ {card_id} |-> cards[c]]
    /\ records' = SelectSeq(records, LAMBDA r : r.member_card_id # card_id)

\* The reset of the member's points that cancel_member_card commits with the delete:
\* a user with points gets an ADJUST record of -points with balance 0, and points
\* and total_points of the user are set to 0.
ResetPoints(user_id, points) ==
    IF user_id \notin users
    THEN UNCHANGED ledger
    ELSE /\ user_points' = [user_points EXCEPT ![user_id] = [points |-> 0, total_points |-> 0]]
         /\ point_records' =
                IF points > 0
                THEN Append(point_records,
                            PointRecord(user_id, -points, 0, "adjust", NULL, ADMIN_ID))
                ELSE point_records

\* db.delete(card); db.commit()
cancel_member_card_commit(s) ==
    /\ pc[s] = "cancel_commit"
    /\ IF loc[s].card \notin DOMAIN cards
       THEN /\ Return(s, "error")
            /\ UNCHANGED <<cards, records, ledger>>
       ELSE /\ DeleteCard(loc[s].card)
            /\ ResetPoints(loc[s].user, loc[s].points)
            /\ Return(s, "ok")
    /\ UNCHANGED <<payments, nextCardId, users>>

\* ------------------------------------------------------------ users
\* The accounts DELETE /users/{user_id} is asked to delete here: the administrator's,
\* which holds no card and no payment.
Operators == {ADMIN_ID}

\* card_recharge_records.operator_id and point_records.operator_id reference
\* users.id ON DELETE SET NULL.
ClearOperator(rows, user_id) ==
    [i \in DOMAIN rows |->
        IF rows[i].operator_id = user_id
        THEN [rows[i] EXCEPT !.operator_id = NULL]
        ELSE rows[i]]

\* DELETE /users/{user_id}: any administrator may delete any account, its own too.
\* db.delete(user) takes the rows of User.payments, User.point_records and
\* User.member_card with it (cascade "all, delete-orphan"; the user_id columns are
\* ON DELETE CASCADE), and the card takes its recharge records.
delete_user(s, user_id) ==
    /\ pc[s] = "idle"
    /\ IF ADMIN_ID \notin users \/ user_id \notin users
       THEN Return(s, "error") /\ UNCHANGED <<users, records, cards, payments, ledger>>
       ELSE /\ users' = users \ {user_id}
            /\ user_points' = [u \in DOMAIN user_points \ {user_id} |-> user_points[u]]
            /\ point_records' = ClearOperator(
                                    SelectSeq(point_records, LAMBDA r : r.user_id # user_id),
                                    user_id)
            /\ payments' = [r \in {q \in DOMAIN payments : payments[q].user_id # user_id} |->
                               payments[r]]
            /\ cards' = [c \in DOMAIN cards \ CardOfUser(user_id) |-> cards[c]]
            /\ records' = ClearOperator(
                              SelectSeq(records,
                                        LAMBDA r : r.member_card_id \notin CardOfUser(user_id)),
                              user_id)
            /\ Return(s, "ok")
    /\ UNCHANGED nextCardId

\* ------------------------------------------------------------ points
\* The transactions table: its rows are written by handlers outside this model.
\* amount is DECIMAL(10, 2), held here in hundredths.
Transactions ==
    [t \in {1, 2, 3} |-> [user_id |-> 1,
                          amount |-> IF t = 1 THEN 250 ELSE IF t = 2 THEN 100 ELSE 50]]

\* The ids a caller may name: those of the rows and one of no row.
TransactionIds == {1, 2, 3, 4}

\* What an administrator may put into PointAdjust.points.
AdjustPoints == {-2, -1, 0, 1}

\* int(transaction.amount) if transaction.amount else 0: int() of a Decimal drops the
\* fraction, towards zero.
IntOfAmount(amount) == IF amount >= 0 THEN amount \div 100 ELSE -((-amount) \div 100)

\* The EARN records of a transaction.
EarnRecords(transaction_id) ==
    SelectSeq(point_records,
              LAMBDA r : r.type = "earn" /\ r.transaction_id = transaction_id)

\* An adjustment that accepts any resulting balance.
AdjustAlwaysAccepted(new_points) == FALSE

\* if new_points < 0: 400
AdjustRefused(new_points) == new_points < 0

\* POST /points/users/{user_id}/adjust up to db.commit()
adjust_user_points(s, user_id, points) ==
    /\ pc[s] = "idle"
    /\ LET l == [NoLoc EXCEPT !.h = "adjust_user_points", !.user = user_id,
                              !.amount = points]
       IN IF ADMIN_ID \notin users \/ user_id \notin users
          THEN Return(s, "error")
          ELSE LET new_points == user_points[user_id].points + points
               IN IF AdjustRefused(new_points)
                  THEN Reply(s, "error", "insufficient_points")
                  ELSE /\ Len(point_records) < MaxPointRecords
                       /\ Goto(s, "adjust_commit",
                               [l EXCEPT !.points = new_points,
                                         !.total_points =
                                             user_points[user_id].total_points
                                             + (IF points > 0 THEN points ELSE 0)])
    /\ UNCHANGED db

\* The flush of a points handler: the user's row gets the points and total_points the
\* session computed from what it read, and the point record is inserted.
WritePoints(s, type, transaction_id, operator_id) ==
    /\ user_points' = [user_points EXCEPT ![loc[s].user] =
                          [points |-> loc[s].points, total_points |-> loc[s].total_points]]
    /\ point_records' = Append(point_records,
                               PointRecord(loc[s].user, loc[s].amount, loc[s].points,
                                           type, transaction_id, operator_id))

\* db.add(point_record); db.commit() of adjust_user_points
adjust_user_points_commit(s) ==
    /\ pc[s] = "adjust_commit"
    /\ IF loc[s].user \notin users \/ ADMIN_ID \notin users
       THEN Return(s, "error") /\ UNCHANGED ledger
       ELSE WritePoints(s, "adjust", NULL, ADMIN_ID) /\ Reply(s, "ok", "point_record")
    /\ UNCHANGED <<payments, cards, records, nextCardId, users>>

\* POST /points/transactions/{transaction_id}/earn up to db.commit(), called by the
\* member who owns the transaction.
earn_points_from_transaction(s, transaction_id) ==
    /\ pc[s] = "idle"
    /\ LET l == [NoLoc EXCEPT !.h = "earn_points_from_transaction",
                              !.transaction = transaction_id]
       IN IF current_user \notin users \/ transaction_id \notin DOMAIN Transactions
          THEN Return(s, "error")
          ELSE LET transaction == Transactions[transaction_id]
                   points == IntOfAmount(transaction.amount)
                   user == user_points[transaction.user_id]
               IN IF EarnRecords(transaction_id) # << >>
                  THEN Reply(s, "error", "already_granted")
                  ELSE IF points <= 0
                  THEN Reply(s, "error", "invalid_amount")
                  ELSE /\ Len(point_records) < MaxPointRecords
                       /\ Goto(s, "earn_commit",
                               [l EXCEPT !.user = transaction.user_id,
                                         !.amount = points,
                                         !.points = user.points + points,
                                         !.total_points = user.total_points + points])
    /\ UNCHANGED db

\* db.add(point_record); db.commit() of earn_points_from_transaction
earn_points_from_transaction_commit(s) ==
    /\ pc[s] = "earn_commit"
    /\ IF loc[s].user \notin users
       THEN Return(s, "error") /\ UNCHANGED ledger
       ELSE /\ WritePoints(s, "earn", loc[s].transaction, NULL)
            /\ Reply(s, "ok", "point_record")
    /\ UNCHANGED <<payments, cards, records, nextCardId, users>>

\* ------------------------------------------------------------ payment creation
FreshRef == Cardinality(DOMAIN payments) + 1

\* POST /member_cards/{card_id}/payment/create.  The payment row is committed before
\* the gateway is asked; gateway_ok: whether AlipayClient.create_payment returned a
\* result (the later commit only stores response_data, which no handler reads).
create_card_recharge_payment(s, alipay_client, card_id, amount, gateway_ok) ==
    /\ pc[s] = "idle"
    /\ IF current_user \notin users \/ card_id \notin DOMAIN cards
       THEN Return(s, "error") /\ UNCHANGED payments
       ELSE IF cards[card_id].status # "active"
       THEN Return(s, "error") /\ UNCHANGED payments
       ELSE /\ FreshRef <= MaxPayments
            /\ payments' = [r \in DOMAIN payments \cup {FreshRef} |->
                               IF r = FreshRef THEN NewPayment(amount, card_id)
                               ELSE payments[r]]
            /\ IF alipay_client.client_initialized /\ gateway_ok
               THEN Reply(s, "ok", "pay_url")
               ELSE Return(s, "error")
    /\ UNCHANGED <<cards, records, nextCardId, users, ledger>>

\* db.add(payment); db.commit() of a creation that checks no card.
InsertPayment(amount, related_id, related_type) ==
    /\ FreshRef <= MaxPayments
    /\ payments' = [r \in DOMAIN payments \cup {FreshRef} |->
                       IF r = FreshRef THEN NewPaymentFor(amount, related_id, related_type)
                       ELSE payments[r]]

\* POST /payments/alipay/create.  The body's amount, related_id and related_type go
\* into the row as they come.  Without an initialized client the handler answers 201
\* with a pay_url it makes up itself ("mock_pay_url", 模拟模式).
create_alipay_payment(s, alipay_client, amount, related_id, related_type, gateway_ok) ==
    /\ pc[s] = "idle"
    /\ InsertPayment(amount, related_id, related_type)
    /\ IF ~alipay_client.client_initialized
       THEN Reply(s, "ok", "mock_pay_url")
       ELSE IF gateway_ok
       THEN Reply(s, "ok", "pay_url")
       ELSE Return(s, "error")
    /\ UNCHANGED <<cards, records, nextCardId, users, ledger>>

\* PaymentService.create_alipay_payment: PaymentResult(success=False) without an
\* initialized client or without a gateway result, after the row is committed.
svc_create_alipay_payment(s, alipay_client, amount, related_id, related_type, gateway_ok) ==
    /\ pc[s] = "idle"
    /\ InsertPayment(amount, related_id, related_type)
    /\ IF alipay_client.client_initialized /\ gateway_ok
       THEN Reply(s, "ok", "pay_url")
       ELSE Return(s, "error")
    /\ UNCHANGED <<cards, records, nextCardId, users, ledger>>

\* ------------------------------------------------------------ settlement
GatewayResults == {"none", "TRADE_SUCCESS", "WAIT_BUYER_PAY"}

\* A PAID transition that records neither the trade number nor the time of payment.
MarkPaidStatusOnly(ref, trade_no, stamp, with_notify) ==
    [payments EXCEPT ![ref].status = PAID,
                     ![ref].notify_data = IF with_notify THEN TRUE ELSE @]

\* payment.status = PAID; payment.trade_no = ...; payment.paid_at = datetime.now(),
\* and notify_data on the callback paths, as the commit writes them.
MarkPaid(ref, trade_no, stamp, with_notify) ==
    [payments EXCEPT ![ref].status = PAID,
                     ![ref].trade_no = trade_no,
                     ![ref].notify_data = IF with_notify THEN TRUE ELSE @,
                     ![ref].paid_at = stamp]

\* payment.status = CANCELLED; payment.notify_data = str(data)
MarkCancelled(ref) ==
    [payments EXCEPT ![ref].status = CANCELLED, ![ref].notify_data = TRUE]

Max(S) == CHOOSE x \in S : \A y \in S : y <= x

\* datetime.now(): a reading is later than every time stamp taken before it, those
\* stored in paid_at and those a running request still holds.
Now ==
    1 + Max({0} \cup {payments[r].paid_at : r \in DOMAIN payments}
                \cup {loc[t].stamp : t \in Sessions})

ReadClock(l) == [l EXCEPT !.stamp = Now]

Tick == Now <= MaxClock

\* Callback handlers that look the payment up without verifying the notification.
CallbackRejectionWithoutVerify(alipay_client, data) == IF data.out_trade_no \notin DOMAIN payments THEN "payment_not_found" ELSE ""

\* The first two tests of every callback handler: the notification must verify and
\* its out_trade_no must name a payment; the message of the FAIL reply, or "".
CallbackRejection(alipay_client, data) ==
    IF ~verify_notify(alipay_client, data) THEN "verify_failed"
    ELSE IF data.out_trade_no \notin DOMAIN payments THEN "payment_not_found"
    ELSE ""

\* A callback handler without its try/except: the exception reaches the framework,
\* which answers 500.
CallbackRaises(s) == Return(s, "error")

\* except Exception as e: return {"code": "FAIL", "message": str(e)}, the last lines
\* of every callback handler.
CallbackFailure(s) == Reply(s, "FAIL", "exception")

\* PaymentService.handle_alipay_callback up to its first db.commit()
handle_alipay_callback(s, alipay_client, data) ==
    /\ pc[s] = "idle"
    /\ LET ref == data.out_trade_no
           l == [NoLoc EXCEPT !.h = "handle_alipay_callback", !.ref = ref,
                              !.ts = data.trade_status]
       IN IF CallbackRejection(alipay_client, data) # ""
          THEN Reply(s, "FAIL", CallbackRejection(alipay_client, data))
          ELSE LET m == [l EXCEPT !.pstatus = payments[ref].status, !.trade = TradeNoOf(ref)]
               IN IF payments[ref].status = PAID
                  THEN Reply(s, "SUCCESS", "already_processed")
                  ELSE IF data.trade_status = "TRADE_SUCCESS"
                  THEN Goto(s, "svc_commit_paid", ReadClock(m)) /\ Tick
                  ELSE IF data.trade_status \in {"TRADE_CLOSED", "TRADE_FINISHED"}
                  THEN Goto(s, "svc_commit_cancelled", m)
                  ELSE Reply(s, "SUCCESS", "processed")
    /\ UNCHANGED db

\* A poll that takes any answer of the gateway for a payment.
SyncsPaidOnAnyAnswer(status, alipay_client, result) == status = PENDING /\ alipay_client.client_initialized /\ result # "none"

\* The test of the three polls: the payment is PENDING, the client is initialized and
\* query_payment returned a result whose trade_status is TRADE_SUCCESS.
SyncsPaid(status, alipay_client, result) ==
    /\ status = PENDING
    /\ alipay_client.client_initialized
    /\ result = "TRADE_SUCCESS"

\* PaymentService.query_payment_status up to its db.commit().  result: what
\* AlipayClient.query_payment returned ("none" or the trade_status).
svc_query_payment_status(s, alipay_client, ref, sync_from_alipay, result) ==
    /\ pc[s] = "idle"
    /\ LET l == [NoLoc EXCEPT !.h = "svc_query_payment_status", !.ref = ref]
       IN IF ref \notin DOMAIN payments
          THEN Return(s, "absent")
          ELSE LET m == [l EXCEPT !.pstatus = payments[ref].status, !.trade = TradeNoOf(ref)]
               IN IF sync_from_alipay /\ SyncsPaid(payments[ref].status, alipay_client, result)
                  THEN Goto(s, "svc_commit_paid", ReadClock(m)) /\ Tick
                  ELSE Reply(s, "ok", payments[ref].status)
    /\ UNCHANGED db

SvcReturn(s) ==
    IF loc[s].h = "handle_alipay_callback"
    THEN Reply(s, "SUCCESS", "processed")
    ELSE IF loc[s].ref \notin DOMAIN payments
    THEN Return(s, "error")
    ELSE Reply(s, "ok", payments[loc[s].ref].status)

\* db.commit() raised in a service method: the callback catches it, the poll does not.
SvcRaise(s) ==
    IF loc[s].h = "handle_alipay_callback"
    THEN CallbackFailure(s)
    ELSE Return(s, "error")

\* db.add(payment); db.commit() of the PAID transition, in either service method
svc_commit_paid(s) ==
    /\ pc[s] = "svc_commit_paid"
    /\ IF loc[s].ref \notin DOMAIN payments
       THEN UNCHANGED payments /\ SvcRaise(s)
       ELSE /\ payments' = MarkPaid(loc[s].ref, loc[s].trade, loc[s].stamp,
                                    loc[s].h = "handle_alipay_callback")
            /\ Goto(s, "svc_process", loc[s])
    /\ UNCHANGED <<cards, records, nextCardId, users, ledger>>

\* db.add(payment); db.commit() of the CANCELLED transition
svc_commit_cancelled(s) ==
    /\ pc[s] = "svc_commit_cancelled"
    /\ IF loc[s].ref \notin DOMAIN payments
       THEN UNCHANGED payments /\ CallbackFailure(s)
       ELSE /\ payments' = MarkCancelled(loc[s].ref)
            /\ Reply(s, "SUCCESS", "processed")
    /\ UNCHANGED <<cards, records, nextCardId, users, ledger>>

\* PaymentService._process_payment_success and _process_member_card_recharge up to
\* db.commit(): the payment's attributes are reloaded after the first commit.
svc_process_payment_success(s) ==
    /\ pc[s] = "svc_process"
    /\ LET p == payments[loc[s].ref]
           card_id == p.related_id
       IN IF loc[s].ref \notin DOMAIN payments
          THEN SvcReturn(s)
          ELSE IF p.related_type # "member_card_recharge"
          THEN SvcReturn(s)
          ELSE IF card_id = NULL \/ card_id \notin DOMAIN cards
          THEN SvcReturn(s)
          ELSE /\ Len(records) < MaxRecords
               /\ Goto(s, "svc_commit_credit",
                       [loc[s] EXCEPT !.card = card_id, !.amount = p.amount,
                                      !.trade = p.trade_no,
                                      !.bal = cards[card_id].balance,
                                      !.tot = cards[card_id].total_recharge,
                                      !.cstat = cards[card_id].status])
    /\ UNCHANGED db

\* db.add(card); db.add(recharge_record); db.commit(), or the rollback when it raises
svc_commit_credit(s) ==
    /\ pc[s] = "svc_commit_credit"
    /\ IF loc[s].card \notin DOMAIN cards
       THEN UNCHANGED <<cards, records>>
       ELSE CreditCard(loc[s].card, loc[s].bal, loc[s].tot, loc[s].amount,
                       loc[s].trade, NULL)
    /\ SvcReturn(s)
    /\ UNCHANGED <<payments, nextCardId, users, ledger>>

\* POST /payments/alipay/notify up to db.commit()
alipay_notify(s, alipay_client, data) ==
    /\ pc[s] = "idle"
    /\ LET ref == data.out_trade_no
           l == [NoLoc EXCEPT !.h = "alipay_notify", !.ref = ref, !.ts = data.trade_status]
       IN IF CallbackRejection(alipay_client, data) # ""
          THEN Reply(s, "FAIL", CallbackRejection(alipay_client, data))
          ELSE LET m == [l EXCEPT !.pstatus = payments[ref].status, !.trade = TradeNoOf(ref)]
               IN IF data.trade_status = "TRADE_SUCCESS"
                  THEN Goto(s, "notify_commit", ReadClock(m)) /\ Tick
                  ELSE IF data.trade_status \in {"TRADE_CLOSED", "TRADE_FINISHED"}
                  THEN Goto(s, "notify_commit", m)
                  ELSE Reply(s, "SUCCESS", "processed")
    /\ UNCHANGED db

\* db.add(payment); db.commit() of alipay_notify
alipay_notify_commit(s) ==
    /\ pc[s] = "notify_commit"
    /\ IF loc[s].ref \notin DOMAIN payments
       THEN UNCHANGED payments /\ CallbackFailure(s)
       ELSE /\ payments' = IF loc[s].ts = "TRADE_SUCCESS"
                           THEN MarkPaid(loc[s].ref, loc[s].trade, loc[s].stamp, TRUE)
                           ELSE MarkCancelled(loc[s].ref)
            /\ Reply(s, "SUCCESS", "processed")
    /\ UNCHANGED <<cards, records, nextCardId, users, ledger>>

\* GET /payments/{out_trade_no}/status up to db.commit()
query_payment_status(s, alipay_client, ref, result) ==
    /\ pc[s] = "idle"
    /\ LET l == [NoLoc EXCEPT !.h = "query_payment_status", !.ref = ref]
       IN IF ref \notin DOMAIN payments
          THEN Return(s, "error")
          ELSE LET m == [l EXCEPT !.pstatus = payments[ref].status, !.trade = TradeNoOf(ref)]
               IN IF SyncsPaid(payments[ref].status, alipay_client, result)
                  THEN Goto(s, "poll_commit", ReadClock(m)) /\ Tick
                  ELSE Reply(s, "ok", payments[ref].status)
    /\ UNCHANGED db

\* db.add(payment); db.commit() of query_payment_status
query_payment_status_commit(s) ==
    /\ pc[s] = "poll_commit"
    /\ payments' = MarkPaid(loc[s].ref, loc[s].trade, loc[s].stamp, FALSE)
    /\ Reply(s, "ok", PAID)
    /\ UNCHANGED <<cards, records, nextCardId, users, ledger>>

\* The card-side reads of the two member-card settlement handlers: the card named
\* in the URL is credited with the payment's amount.
ReadCardForCredit(l, card_id, ref) ==
    [l EXCEPT !.amount = payments[ref].amount,
              !.bal = cards[card_id].balance,
              !.tot = cards[card_id].total_recharge,
              !.cstat = cards[card_id].status]

\* POST /member_cards/{card_id}/payment/notify up to db.commit()
card_recharge_payment_notify(s, alipay_client, card_id, data) ==
    /\ pc[s] = "idle"
    /\ LET ref == data.out_trade_no
           l == [NoLoc EXCEPT !.h = "card_recharge_payment_notify", !.ref = ref,
                              !.card = card_id, !.ts = data.trade_status]
       IN IF CallbackRejection(alipay_client, data) # ""
          THEN Reply(s, "FAIL", CallbackRejection(alipay_client, data))
          ELSE LET m == [l EXCEPT !.pstatus = payments[ref].status, !.trade = TradeNoOf(ref)]
               IN IF payments[ref].status = PAID
                  THEN Reply(s, "SUCCESS", "already_processed")
                  ELSE IF card_id \notin DOMAIN cards
                  THEN Reply(s, "FAIL", "card_not_found")
                  ELSE IF data.trade_status = "TRADE_SUCCESS"
                  THEN /\ Len(records) < MaxRecords
                       /\ Goto(s, "card_notify_commit",
                               ReadClock(ReadCardForCredit(m, card_id, ref)))
                       /\ Tick
                  ELSE Reply(s, "SUCCESS", "completed")
    /\ UNCHANGED db

\* The single db.commit() of a member-card settlement handler: the payment, the card
\* and the record are written together, or nothing is when the flush raises.
CommitCardSettlement(s, with_notify) ==
    IF loc[s].card \notin DOMAIN cards \/ loc[s].ref \notin DOMAIN payments
    THEN UNCHANGED <<payments, cards, records>>
    ELSE /\ payments' = MarkPaid(loc[s].ref, loc[s].trade, loc[s].stamp, with_notify)
         /\ CreditCard(loc[s].card, loc[s].bal, loc[s].tot, loc[s].amount,
                       loc[s].trade, NULL)

card_recharge_payment_notify_commit(s) ==
    /\ pc[s] = "card_notify_commit"
    /\ CommitCardSettlement(s, TRUE)
    /\ IF loc[s].card \in DOMAIN cards /\ loc[s].ref \in DOMAIN payments
       THEN Reply(s, "SUCCESS", "recharged")
       ELSE CallbackFailure(s)
    /\ UNCHANGED <<nextCardId, users, ledger>>

\* GET /member_cards/{card_id}/payment/{out_trade_no}/status up to db.commit()
query_card_recharge_payment_status(s, alipay_client, card_id, ref, result) ==
    /\ pc[s] = "idle"
    /\ LET l == [NoLoc EXCEPT !.h = "query_card_recharge_payment_status", !.ref = ref,
                              !.card = card_id]
       IN IF card_id \notin DOMAIN cards
          THEN Return(s, "error")
          ELSE IF ref \notin DOMAIN payments
          THEN Return(s, "error")
          ELSE LET m == [l EXCEPT !.pstatus = payments[ref].status, !.trade = TradeNoOf(ref)]
               IN IF SyncsPaid(payments[ref].status, alipay_client, result)
                  THEN /\ Len(records) < MaxRecords
                       /\ Goto(s, "card_poll_commit",
                               ReadClock(ReadCardForCredit(m, card_id, ref)))
                       /\ Tick
                  ELSE Reply(s, "ok", payments[ref].status)
    /\ UNCHANGED db

query_card_recharge_payment_status_commit(s) ==
    /\ pc[s] = "card_poll_commit"
    /\ CommitCardSettlement(s, FALSE)
    /\ IF loc[s].card \in DOMAIN cards /\ loc[s].ref \in DOMAIN payments
       THEN Reply(s, "ok", PAID)
       ELSE Return(s, "error")
    /\ UNCHANGED <<nextCardId, users, ledger>>

\* ------------------------------------------------------------ specifications
\* The steps of a request to the member-card desk, to the card's own payment creation
\* or to a settlement handler, from its arrival to its response.
Request(s) ==
    \/ \E u \in Users : create_member_card(s, u)
    \/ create_member_card_commit(s)
    \/ \E c \in CardIds, a \in RechargeAmounts : recharge_member_card(s, c, a)
    \/ recharge_member_card_commit(s)
    \/ \E c \in CardIds : freeze_member_card(s, c)
    \/ \E c \in CardIds : unfreeze_member_card(s, c)
    \/ \E c \in CardIds : cancel_member_card(s, c)
    \/ cancel_member_card_commit(s)
    \/ \E k \in AlipayClients, c \in CardIds, a \in PaymentAmounts, g \in BOOLEAN :
          create_card_recharge_payment(s, k, c, a, g)
    \/ \E k \in AlipayClients, d \in Payloads : handle_alipay_callback(s, k, d)
    \/ \E k \in AlipayClients, r \in Refs, y \in BOOLEAN, g \in GatewayResults :
          svc_query_payment_status(s, k, r, y, g)
    \/ svc_commit_paid(s)
    \/ svc_commit_cancelled(s)
    \/ svc_process_payment_success(s)
    \/ svc_commit_credit(s)
    \/ \E k \in AlipayClients, d \in Payloads : alipay_notify(s, k, d)
    \/ alipay_notify_commit(s)
    \/ \E k \in AlipayClients, r \in Refs, g \in GatewayResults :
          query_payment_status(s, k, r, g)
    \/ query_payment_status_commit(s)
    \/ \E k \in AlipayClients, c \in CardIds, d \in Payloads :
          card_recharge_payment_notify(s, k, c, d)
    \/ card_recharge_payment_notify_commit(s)
    \/ \E k \in AlipayClients, c \in CardIds, r \in Refs, g \in GatewayResults :
          query_card_recharge_payment_status(s, k, c, r, g)
    \/ query_card_recharge_payment_status_commit(s)
    \/ Finish(s)

Step(s) == Request(s) \/ Abort(s)

\* Requests run concurrently, each on its own session.
Next == \E s \in Sessions : Step(s)

Spec == Init /\ [][Next]_vars

\* Requests run one after another, on one session at a time.
NextSeq == Step("s1")

SpecSeq == Init /\ [][NextSeq]_vars

\* Requests run one after another and each one runs to its response.
NextSeqNoCrash == Request("s1")

SpecSeqNoCrash == Init /\ [][NextSeqNoCrash]_vars

\* A callback and a poll race for the payments of one card: session s1 sets the card
\* and the payment up and then delivers TRADE_SUCCESS notifications, session s2 polls.
RaceCallbacks == {d \in Payloads : d.trade_status = "TRADE_SUCCESS"}

RaceCallbackStep ==
    \/ \E u \in Users : create_member_card("s1", u)
    \/ create_member_card_commit("s1")
    \/ \E k \in AlipayClients, c \in CardIds, a \in PaymentAmounts, g \in BOOLEAN :
          create_card_recharge_payment("s1", k, c, a, g)
    \/ \E k \in AlipayClients, d \in RaceCallbacks : handle_alipay_callback("s1", k, d)
    \/ \E k \in AlipayClients, c \in CardIds, d \in RaceCallbacks :
          card_recharge_payment_notify("s1", k, c, d)
    \/ card_recharge_payment_notify_commit("s1")

RacePollStep ==
    \/ \E k \in AlipayClients, r \in Refs, y \in BOOLEAN, g \in GatewayResults :
          svc_query_payment_status("s2", k, r, y, g)
    \/ \E k \in AlipayClients, c \in CardIds, r \in Refs, g \in GatewayResults :
          query_card_recharge_payment_status("s2", k, c, r, g)
    \/ query_card_recharge_payment_status_commit("s2")

RaceServiceStep ==
    \E s \in Sessions :
        \/ svc_commit_paid(s)
        \/ svc_process_payment_success(s)
        \/ svc_commit_credit(s)
        \/ Finish(s)

NextRace == RaceCallbackStep \/ RacePollStep \/ RaceServiceStep

SpecRace == Init /\ [][NextRace]_vars

\* The life of a self-service payment: a card is opened, payments of it are created,
\* and notifications and polls settle them; requests run one after another and each
\* one runs to its response.
NextSettle ==
    \/ \E u \in Users : create_member_card("s1", u)
    \/ create_member_card_commit("s1")
    \/ \E k \in AlipayClients, c \in CardIds, a \in PaymentAmounts, g \in BOOLEAN :
          create_card_recharge_payment("s1", k, c, a, g)
    \/ \E k \in AlipayClients, d \in Payloads : handle_alipay_callback("s1", k, d)
    \/ \E k \in AlipayClients, r \in Refs, y \in BOOLEAN, g \in GatewayResults :
          svc_query_payment_status("s1", k, r, y, g)
    \/ svc_commit_paid("s1")
    \/ svc_commit_cancelled("s1")
    \/ svc_process_payment_success("s1")
    \/ svc_commit_credit("s1")
    \/ \E k \in AlipayClients, d \in Payloads : alipay_notify("s1", k, d)
    \/ alipay_notify_commit("s1")
    \/ \E k \in AlipayClients, r \in Refs, g \in GatewayResults :
          query_payment_status("s1", k, r, g)
    \/ query_payment_status_commit("s1")
    \/ \E k \in AlipayClients, c \in CardIds, d \in Payloads :
          card_recharge_payment_notify("s1", k, c, d)
    \/ card_recharge_payment_notify_commit("s1")
    \/ \E k \in AlipayClients, c \in CardIds, r \in Refs, g \in GatewayResults :
          query_card_recharge_payment_status("s1", k, c, r, g)
    \/ query_card_recharge_payment_status_commit("s1")
    \/ Finish("s1")

SpecSettle == Init /\ [][NextSettle]_vars

\* The administrator's requests (the member-card desk and the deletion of an
\* account), run concurrently on two sessions, each request to its response.
CardRequest(s) ==
    \/ \E u \in Users : create_member_card(s, u)
    \/ create_member_card_commit(s)
    \/ \E c \in CardIds, a \in RechargeAmounts : recharge_member_card(s, c, a)
    \/ recharge_member_card_commit(s)
    \/ \E c \in CardIds : freeze_member_card(s, c)
    \/ \E c \in CardIds : unfreeze_member_card(s, c)
    \/ \E c \in CardIds : cancel_member_card(s, c)
    \/ cancel_member_card_commit(s)
    \/ \E u \in Operators : delete_user(s, u)
    \/ Finish(s)

NextCards == \E s \in Sessions : CardRequest(s)

SpecCards == Init /\ [][NextCards]_vars

\* What a client may put into the amount of a creation request: the handlers take
\* amount: Decimal and amount: str as they come.
RequestedAmounts == {-2, 0, 2}

\* The gateway collects money only for an order whose total_amount is positive: only
\* of such an order does it report TRADE_SUCCESS, to a query or in a notification
\* that a client with keys accepts.
GatewayCollected(ref) == ref \in DOMAIN payments => payments[ref].amount > 0

\* The notifications that can reach a handler served with alipay_client, and the
\* results a query of order ref can get.
NotificationsFor(alipay_client) ==
    {d \in Payloads :
        (alipay_client.client_initialized /\ d.trade_status = "TRADE_SUCCESS")
        => GatewayCollected(d.out_trade_no)}

AnswersFor(ref) == {g \in GatewayResults : g = "TRADE_SUCCESS" => GatewayCollected(ref)}

\* Payments are created with any requested amount and settled by callbacks and polls;
\* requests run one after another and each one runs to its response.
NextAnyAmount ==
    \/ \E u \in Users : create_member_card("s1", u)
    \/ create_member_card_commit("s1")
    \/ \E c \in CardIds, a \in RechargeAmounts : recharge_member_card("s1", c, a)
    \/ recharge_member_card_commit("s1")
    \/ \E k \in AlipayClients, c \in CardIds, a \in RequestedAmounts, g \in BOOLEAN :
          create_card_recharge_payment("s1", k, c, a, g)
    \/ \E k \in AlipayClients, c \in CardIds, a \in RequestedAmounts, g \in BOOLEAN :
          create_alipay_payment("s1", k, a, c, "member_card_recharge", g)
    \/ \E k \in AlipayClients, c \in CardIds, a \in RequestedAmounts, g \in BOOLEAN :
          svc_create_alipay_payment("s1", k, a, c, "member_card_recharge", g)
    \/ \E k \in AlipayClients : \E d \in NotificationsFor(k) :
          handle_alipay_callback("s1", k, d)
    \/ \E k \in AlipayClients, r \in Refs, y \in BOOLEAN : \E g \in AnswersFor(r) :
          svc_query_payment_status("s1", k, r, y, g)
    \/ svc_commit_paid("s1")
    \/ svc_commit_cancelled("s1")
    \/ svc_process_payment_success("s1")
    \/ svc_commit_credit("s1")
    \/ \E k \in AlipayClients, c \in CardIds : \E d \in NotificationsFor(k) :
          card_recharge_payment_notify("s1", k, c, d)
    \/ card_recharge_payment_notify_commit("s1")
    \/ \E k \in AlipayClients, c \in CardIds, r \in Refs : \E g \in AnswersFor(r) :
          query_card_recharge_payment_status("s1", k, c, r, g)
    \/ query_card_recharge_payment_status_commit("s1")
    \/ Finish("s1")

SpecAnyAmount == Init /\ [][NextAnyAmount]_vars

\* ------------------------------------------------------------ properties
CallbackHandlers == {"handle_alipay_callback", "alipay_notify", "card_recharge_payment_notify"}

Quiescent == \A s \in Sessions : pc[s] \in {"idle", "done"}

TargetCardActive(r) ==
    /\ payments[r].related_id \in DOMAIN cards
    /\ cards[payments[r].related_id].status = "active"

\* Session s leaves its handler with this step.
Returns(s) == pc[s] # "done" /\ pc'[s] = "done"

\* C1: when a success callback and a syncing poll race for one PENDING payment, the
\* payment is credited once: it never has more than one recharge record.
C1_RaceCreditsOnce ==
    \A r \in DOMAIN payments : Len(RecordsOfPayment(r)) <= 1

\* C2: whenever no request is running, every PAID member_card_recharge payment whose
\* target card exists and is active has exactly one recharge record.
C2_PaidHasExactlyOneRecord ==
    Quiescent =>
        \A r \in DOMAIN payments :
            (/\ payments[r].status = PAID
             /\ payments[r].related_type = "member_card_recharge"
             /\ TargetCardActive(r))
            => Len(RecordsOfPayment(r)) = 1

\* C3: a verified success callback that finds its payment already settled by a
\* callback returns the success acknowledgement and leaves paid_at, the cards and the
\* recharge records as they were.
C3_SecondDeliveryChangesNothing ==
    [][\A s \in Sessions :
          (/\ Returns(s)
           /\ loc[s].h \in CallbackHandlers
           /\ loc[s].ts = "TRADE_SUCCESS"
           /\ loc[s].pstatus = PAID
           /\ payments[loc[s].ref].notify_data)
          => /\ payments'[loc[s].ref].paid_at = payments[loc[s].ref].paid_at
             /\ cards' = cards
             /\ records' = records
             /\ loc'[s].ret = "SUCCESS"]_vars

\* C4: a payment that is PAID or CANCELLED keeps its status and its paid_at in every
\* step.
C4_TerminalStatesImmutable ==
    [][\A r \in DOMAIN payments :
          payments[r].status \in {PAID, CANCELLED}
          => /\ payments'[r].status = payments[r].status
             /\ payments'[r].paid_at = payments[r].paid_at]_vars

\* C5: between the steps of handle_alipay_callback for a payment it read as PENDING,
\* the persisted state never has the payment PAID while its existing active target
\* card has no recharge record of it.
C5_PaidAndCreditAtomic ==
    \A s \in Sessions :
        (/\ pc[s] \notin {"idle", "done"}
         /\ loc[s].h = "handle_alipay_callback"
         /\ loc[s].pstatus = PENDING
         /\ payments[loc[s].ref].status = PAID
         /\ TargetCardActive(loc[s].ref))
        => Len(RecordsOfPayment(loc[s].ref)) >= 1

\* The positions from which a handler's next step commits a credit of a card.
CreditCommitPoints ==
    {"recharge_commit", "svc_commit_credit", "card_notify_commit", "card_poll_commit"}

\* C6: a recharge of a card whose payment is not yet credited (or an admin recharge)
\* commits on top of the card's latest committed balance: the balance rises by the
\* amount and the new record's balance_before is the balance just before the commit.
C6_RechargesSerialized ==
    [][\A s \in Sessions :
          (/\ pc[s] \in CreditCommitPoints
           /\ Returns(s)
           /\ loc[s].card \in DOMAIN cards
           /\ (loc[s].h = "recharge_member_card"
               \/ RecordsOfPayment(loc[s].ref) = << >>))
          => /\ cards'[loc[s].card].balance = cards[loc[s].card].balance + loc[s].amount
             /\ records'[Len(records')].balance_before = cards[loc[s].card].balance]_vars

\* C7: when requests run one after another, every card's balance is the sum of the
\* amounts of its recharge records, and each record's balance_after is the next
\* record's balance_before.
C7_BalanceIsSumOfRecords ==
    \A c \in DOMAIN cards :
        LET rs == RecordsOfCard(c)
        IN /\ cards[c].balance = SumAmounts(rs)
           /\ \A i \in 1..(Len(rs) - 1) : rs[i].balance_after = rs[i + 1].balance_before

\* A card recharged twice in sequence, once by an admin and once by a settlement.
C7_Witness ==
    \E c \in DOMAIN cards :
        LET rs == RecordsOfCard(c)
        IN /\ Len(rs) = 2
           /\ rs[1].operator_id # rs[2].operator_id
           /\ Quiescent

\* C8: the step that completes a verified TRADE_SUCCESS callback of the payment
\* service or of the member-card endpoint, for a payment read as PENDING whose target
\* card is active with balance B, leaves the payment PAID with trade_no and paid_at
\* set, the card at B + A, and exactly one recharge record of the payment: amount A,
\* balance_before B, balance_after B + A, operator_id null.
C8_CallbackHappyPath ==
    [][\A s \in Sessions :
          (/\ pc[s] \in {"svc_commit_credit", "card_notify_commit"}
           /\ Returns(s)
           /\ loc[s].h \in {"handle_alipay_callback", "card_recharge_payment_notify"}
           /\ loc[s].ts = "TRADE_SUCCESS"
           /\ loc[s].pstatus = PENDING
           /\ loc[s].card = payments[loc[s].ref].related_id
           /\ TargetCardActive(loc[s].ref))
          => LET r == loc[s].ref
                 c == loc[s].card
                 A == payments[r].amount
                 B == cards[c].balance
             IN /\ payments'[r].status = PAID
                /\ payments'[r].trade_no = TradeNoOf(r)
                /\ payments'[r].paid_at # NULL
                /\ cards'[c].balance = B + A
                /\ records' = Append(records,
                                     RechargeRecord(c, A, B, B + A, TradeNoOf(r), NULL))
                /\ Len(RecordsOfPaymentIn(records', r)) = 1
                /\ loc'[s].ret = "SUCCESS"]_vars

\* A callback has just returned SUCCESS, leaving a PAID payment with its one record
\* and its card at the payment's amount.
C8_Witness ==
    \E s \in Sessions, r \in DOMAIN payments :
        /\ pc[s] = "done"
        /\ loc[s].ret = "SUCCESS"
        /\ loc[s].message \in {"processed", "recharged"}
        /\ payments[r].status = PAID
        /\ payments[r].notify_data
        /\ payments[r].paid_at # NULL
        /\ TargetCardActive(r)
        /\ cards[payments[r].related_id].balance = payments[r].amount
        /\ records = <<RechargeRecord(payments[r].related_id, payments[r].amount, 0,
                                      payments[r].amount, TradeNoOf(r), NULL)>>

\* C9: a settlement that commits while its card is frozen marks the payment PAID with
\* paid_at set and leaves the cards and the recharge records as they were.
C9_FrozenCardNotCredited ==
    [][\A s \in Sessions :
          (/\ pc[s] \in CreditCommitPoints \ {"recharge_commit"}
           /\ Returns(s)
           /\ loc[s].pstatus = PENDING
           /\ loc[s].card \in DOMAIN cards
           /\ cards[loc[s].card].status = "frozen")
          => /\ payments'[loc[s].ref].status = PAID
             /\ payments'[loc[s].ref].paid_at # NULL
             /\ cards' = cards
             /\ records' = records]_vars

\* The step is the whole run of a verified TRADE_SUCCESS callback of the member-card
\* endpoint for PENDING payment r, on r's target card, which is gone.
NotifyForMissingCard(s, r) ==
    \E k \in AlipayClients, d \in Payloads :
        /\ verify_notify(k, d)
        /\ d.trade_status = "TRADE_SUCCESS"
        /\ d.out_trade_no = r
        /\ payments[r].status = PENDING
        /\ payments[r].related_id \notin DOMAIN cards
        /\ card_recharge_payment_notify(s, k, payments[r].related_id, d)

\* The step completes handle_alipay_callback's TRADE_SUCCESS run for payment r, read as
\* PENDING, whose target card is gone.
ServiceCallbackForMissingCard(s, r) ==
    /\ pc[s] = "svc_process"
    /\ Returns(s)
    /\ loc[s].h = "handle_alipay_callback"
    /\ loc[s].ref = r
    /\ loc[s].pstatus = PENDING
    /\ payments[r].related_id \notin DOMAIN cards

\* C10: a verified success callback for a PENDING payment whose target card does not
\* exist leaves the payment PAID with paid_at and trade_no set and changes no card
\* and no recharge record.
C10_MissingCardStillPaid ==
    [][\A s \in Sessions, r \in DOMAIN payments :
          (NotifyForMissingCard(s, r) \/ ServiceCallbackForMissingCard(s, r))
          => /\ payments'[r].status = PAID
             /\ payments'[r].paid_at # NULL
             /\ payments'[r].trade_no # NULL
             /\ cards' = cards
             /\ records' = records]_vars

\* C11: in every reachable state every member card has a balance of at least zero,
\* whatever amounts the payments were created with.
C11_BalanceNeverNegative ==
    \A c \in DOMAIN cards : cards[c].balance >= 0

\* The step is the whole run of one of the three payment creations, asked for amount
\* by a request served with alipay_client.
CreatesPayment(s, alipay_client, amount) ==
    \E c \in CardIds, g \in BOOLEAN :
        \/ create_card_recharge_payment(s, alipay_client, c, amount, g)
        \/ create_alipay_payment(s, alipay_client, amount, c, "member_card_recharge", g)
        \/ svc_create_alipay_payment(s, alipay_client, amount, c, "member_card_recharge", g)

\* C12: a creation request with a zero or negative amount returns an error and
\* stores no payment row.
C12_NonPositiveAmountRejected ==
    [][\A s \in Sessions, k \in AlipayClients, a \in RequestedAmounts :
          (a <= 0 /\ CreatesPayment(s, k, a))
          => /\ loc'[s].ret = "error"
             /\ payments' = payments]_vars

\* The step is the whole run of a payment creation served without an initialized
\* client, past the creation's own checks of the card.
CreatesPaymentWithoutClient(s) ==
    \E k \in AlipayClients, c \in CardIds, a \in PaymentAmounts, g \in BOOLEAN :
        /\ ~k.client_initialized
        /\ \/ /\ c \in DOMAIN cards
              /\ cards[c].status = "active"
              /\ create_card_recharge_payment(s, k, c, a, g)
           \/ create_alipay_payment(s, k, a, c, "member_card_recharge", g)
           \/ svc_create_alipay_payment(s, k, a, c, "member_card_recharge", g)

\* C13: a creation served without an initialized client reports an error, returns no
\* pay URL and leaves the payment row it inserted stored as PENDING.
C13_UnavailableGatewayIsAnError ==
    [][\A s \in Sessions :
          CreatesPaymentWithoutClient(s)
          => /\ loc'[s].ret = "error"
             /\ loc'[s].message \notin {"pay_url", "mock_pay_url"}
             /\ DOMAIN payments' = DOMAIN payments \cup {FreshRef}
             /\ payments'[FreshRef].status = PENDING]_vars

\* The step is the whole run of a poll of PENDING payment r that gets nothing from the
\* gateway (no client, or query_payment returned None) or a trade_status other than
\* TRADE_SUCCESS.
PollWithoutSuccess(s, r) ==
    /\ pc[s] = "idle"
    /\ pc'[s] # "idle"
    /\ payments[r].status = PENDING
    /\ \E k \in AlipayClients, g \in GatewayResults :
          /\ (~k.client_initialized \/ g # "TRADE_SUCCESS")
          /\ \/ \E y \in BOOLEAN : svc_query_payment_status(s, k, r, y, g)
             \/ query_payment_status(s, k, r, g)
             \/ \E c \in CardIds : query_card_recharge_payment_status(s, k, c, r, g)

\* C14: a poll of a PENDING payment that gets no result or a result other than
\* TRADE_SUCCESS returns with the payment still PENDING, paid_at and trade_no unset,
\* and every payment, card and recharge record as it was.
C14_FailedQueryNeverAdvances ==
    [][\A s \in Sessions, r \in DOMAIN payments :
          PollWithoutSuccess(s, r)
          => /\ pc'[s] = "done"
             /\ payments'[r].status = PENDING
             /\ payments'[r].paid_at = NULL
             /\ payments'[r].trade_no = NULL
             /\ payments' = payments
             /\ cards' = cards
             /\ records' = records]_vars

\* A poll has just answered that the payment is still pending.
C14_Witness ==
    \E s \in Sessions, r \in DOMAIN payments :
        /\ pc[s] = "done"
        /\ loc[s].ret = "ok"
        /\ loc[s].message = PENDING
        /\ payments[r].status = PENDING
        /\ payments[r].paid_at = NULL

\* The step is the whole run of a callback handler on a notification that fails
\* verification or names no payment.
RejectedCallback(s) ==
    /\ pc[s] = "idle"
    /\ pc'[s] # "idle"
    /\ \E k \in AlipayClients, d \in Payloads :
          /\ (~verify_notify(k, d) \/ d.out_trade_no \notin DOMAIN payments)
          /\ \/ handle_alipay_callback(s, k, d)
             \/ alipay_notify(s, k, d)
             \/ \E c \in CardIds : card_recharge_payment_notify(s, k, c, d)

\* C15: a callback that fails verification, or that names an out_trade_no of no
\* payment, returns FAIL and leaves every payment, card and recharge record unchanged.
C15_RejectedCallbackChangesNothing ==
    [][\A s \in Sessions :
          RejectedCallback(s)
          => /\ pc'[s] = "done"
             /\ loc'[s].ret = "FAIL"
             /\ payments' = payments
             /\ cards' = cards
             /\ records' = records]_vars

\* A notification claiming a pending payment of an existing card was paid has just been
\* refused for its verification.
C15_Witness ==
    \E s \in Sessions, r \in DOMAIN payments :
        /\ pc[s] = "done"
        /\ loc[s].ret = "FAIL"
        /\ loc[s].message = "verify_failed"
        /\ payments[r].status = PENDING
        /\ TargetCardActive(r)

\* The step is the whole run of a callback handler on a notification that lacks a
\* required field or whose signature is missing or not the gateway's.
InvalidCallback(s) ==
    \E k \in AlipayClients, c \in CardIds, d \in Payloads :
        /\ (~d.complete \/ d.sign # "good")
        /\ \/ handle_alipay_callback(s, k, d)
           \/ alipay_notify(s, k, d)
           \/ card_recharge_payment_notify(s, k, c, d)

\* C16: under every client, a notification that lacks a required field or carries an
\* invalid signature is refused: the handler returns FAIL and settles nothing.
C16_InvalidSignatureNeverSettles ==
    [][\A s \in Sessions :
          InvalidCallback(s)
          => /\ pc'[s] = "done"
             /\ loc'[s].ret = "FAIL"
             /\ payments' = payments]_vars

\* C17: in every reachable state a payment has paid_at set exactly when its status is
\* PAID.
C17_PaidAtIffPaid ==
    \A r \in DOMAIN payments :
        (payments[r].paid_at # NULL) <=> (payments[r].status = PAID)

\* The step is the whole run of cancel_member_card on a card with a positive balance.
CancelWithBalance(s) ==
    \E c \in DOMAIN cards : cards[c].balance > 0 /\ cancel_member_card(s, c)

\* C18: cancel_member_card on a card with a positive balance is rejected and leaves
\* the cards and the recharge records unchanged, and a step that deletes a card finds
\* the card's balance at exactly zero.
C18_CancelOnlyAtZeroBalance ==
    [][/\ \A s \in Sessions :
            CancelWithBalance(s)
            => /\ loc'[s].ret = "error"
               /\ cards' = cards
               /\ records' = records
       /\ \A c \in DOMAIN cards :
            c \notin DOMAIN cards' => cards[c].balance = 0]_vars

\* C19: after every step each user has at most one member card, and the commit of a
\* create_member_card that finds a card of its user already stored (a concurrent
\* request got there first) stores nothing and fails.
C19_OneCardPerUser ==
    [][/\ \A u \in Users :
            Cardinality({c \in DOMAIN cards' : cards'[c].user_id = u}) <= 1
       /\ \A s \in Sessions :
            (/\ pc[s] = "create_card_commit"
             /\ pc'[s] = "done"
             /\ CardOfUser(loc[s].user) # {})
            => /\ cards' = cards
               /\ loc'[s].ret = "error"]_vars

\* Of two concurrent creations for one user, one has stored its card and the other
\* has just failed at its commit.
C19_Witness ==
    \E s \in Sessions, u \in Users :
        /\ pc[s] = "done"
        /\ loc[s].ret = "error"
        /\ loc[s].message = "integrity_error"
        /\ Cardinality(CardOfUser(u)) = 1

\* C20: a step changes the recharge records only by inserting one record after the
\* existing ones, which stay as they are, or by deleting a card together with all of
\* its records and nothing else.
C20_RechargeRecordsImmutable ==
    [][\/ records' = records
       \/ /\ Len(records') = Len(records) + 1
          /\ SubSeq(records', 1, Len(records)) = records
       \/ \E c \in DOMAIN cards \ DOMAIN cards' :
             records' = SelectSeq(records, LAMBDA r : r.member_card_id # c)]_vars

\* ------------------------------------------------------------ accounts
\* The life of a member's account: the card is opened, recharged at the desk and by
\* self-service payments, cancelled, and the account itself (or the administrator's)
\* is deleted; requests run one after another, each to its response.
NextAccounts ==
    \/ \E u \in Users : create_member_card("s1", u)
    \/ create_member_card_commit("s1")
    \/ \E c \in CardIds, a \in RechargeAmounts : recharge_member_card("s1", c, a)
    \/ recharge_member_card_commit("s1")
    \/ \E k \in AlipayClients, c \in CardIds, a \in PaymentAmounts, g \in BOOLEAN :
          create_card_recharge_payment("s1", k, c, a, g)
    \/ \E k \in AlipayClients, c \in CardIds, d \in Payloads :
          card_recharge_payment_notify("s1", k, c, d)
    \/ card_recharge_payment_notify_commit("s1")
    \/ \E c \in CardIds : cancel_member_card("s1", c)
    \/ cancel_member_card_commit("s1")
    \/ \E u \in Users \cup Operators : delete_user("s1", u)
    \/ Finish("s1")

SpecAccounts == Init /\ [][NextAccounts]_vars

\* C21: a persisted Payment row stays in the table, under the same out_trade_no,
\* whatever is done next, the cancellation of the card it targets and the deletion of
\* the user who owns it included.
C21_PaymentsNeverDeleted ==
    [][\A r \in DOMAIN payments : r \in DOMAIN payments']_vars

\* ------------------------------------------------------------ webhook
\* Notifications arrive on one session while the member and the administrator act on
\* the other: the card is opened, a payment of it is created, the card is cancelled,
\* the member's account is deleted.  A notification can so find its payment or its
\* card gone when it commits.
NextWebhook ==
    \/ \E k \in AlipayClients, d \in Payloads : handle_alipay_callback("s1", k, d)
    \/ svc_commit_paid("s1")
    \/ svc_commit_cancelled("s1")
    \/ svc_process_payment_success("s1")
    \/ svc_commit_credit("s1")
    \/ \E k \in AlipayClients, d \in Payloads : alipay_notify("s1", k, d)
    \/ alipay_notify_commit("s1")
    \/ \E k \in AlipayClients, c \in CardIds, d \in Payloads :
          card_recharge_payment_notify("s1", k, c, d)
    \/ card_recharge_payment_notify_commit("s1")
    \/ \E u \in Users : create_member_card("s2", u)
    \/ create_member_card_commit("s2")
    \/ \E k \in AlipayClients, c \in CardIds, a \in PaymentAmounts, g \in BOOLEAN :
          create_card_recharge_payment("s2", k, c, a, g)
    \/ \E c \in CardIds : cancel_member_card("s2", c)
    \/ cancel_member_card_commit("s2")
    \/ \E u \in Users : delete_user("s2", u)
    \/ \E s \in Sessions : Finish(s)

SpecWebhook == Init /\ [][NextWebhook]_vars

\* The sessions that serve notifications in NextWebhook.
WebhookSessions == {"s1"}

\* Session s leaves a callback handler with this step.
CallbackReturns(s) ==
    /\ Returns(s)
    /\ \/ pc[s] # "idle" /\ loc[s].h \in CallbackHandlers
       \/ /\ pc[s] = "idle"
          /\ \E k \in AlipayClients, d \in Payloads :
                \/ handle_alipay_callback(s, k, d)
                \/ alipay_notify(s, k, d)
                \/ \E c \in CardIds : card_recharge_payment_notify(s, k, c, d)

\* C22: every callback handler answers every notification with code SUCCESS or FAIL,
\* whatever the payload and whatever fails inside (verification, an unknown
\* out_trade_no, a commit the database refuses): no exception leaves the handler.
\* (Stated contrapositively: a step of the session that serves the notifications
\* which returns anything else is no callback's.)
C22_CallbackAlwaysAcknowledges ==
    [][\A s \in WebhookSessions :
          (Returns(s) /\ loc'[s].ret \notin {"SUCCESS", "FAIL"}) => ~CallbackReturns(s)]_vars

\* A callback handler has answered FAIL for a commit that raised.
C22_Witness ==
    \E s \in Sessions :
        pc[s] = "done" /\ loc[s].ret = "FAIL" /\ loc[s].message = "exception"

\* ------------------------------------------------------------ related_type
\* What the body of POST /payments/alipay/create may name as the payment's object:
\* related_type and related_id are optional and unchecked.
RelatedTypes == {"member_card_recharge", "product", "none"}
RelatedIds == CardIds \cup {NULL}

\* Payments of every kind are created and then settled by every callback and poll;
\* requests run one after another and each one runs to its response.
NextRelated ==
    \/ \E u \in Users : create_member_card("s1", u)
    \/ create_member_card_commit("s1")
    \/ \E k \in AlipayClients, a \in PaymentAmounts, c \in RelatedIds, t \in RelatedTypes,
          g \in BOOLEAN : create_alipay_payment("s1", k, a, c, t, g)
    \/ \E k \in AlipayClients, d \in Payloads : handle_alipay_callback("s1", k, d)
    \/ \E k \in AlipayClients, r \in Refs, y \in BOOLEAN, g \in GatewayResults :
          svc_query_payment_status("s1", k, r, y, g)
    \/ svc_commit_paid("s1")
    \/ svc_commit_cancelled("s1")
    \/ svc_process_payment_success("s1")
    \/ svc_commit_credit("s1")
    \/ \E k \in AlipayClients, d \in Payloads : alipay_notify("s1", k, d)
    \/ alipay_notify_commit("s1")
    \/ \E k \in AlipayClients, r \in Refs, g \in GatewayResults :
          query_payment_status("s1", k, r, g)
    \/ query_payment_status_commit("s1")
    \/ \E k \in AlipayClients, c \in CardIds, d \in Payloads :
          card_recharge_payment_notify("s1", k, c, d)
    \/ card_recharge_payment_notify_commit("s1")
    \/ \E k \in AlipayClients, c \in CardIds, r \in Refs, g \in GatewayResults :
          query_card_recharge_payment_status("s1", k, c, r, g)
    \/ query_card_recharge_payment_status_commit("s1")
    \/ Finish("s1")

SpecRelated == Init /\ [][NextRelated]_vars

\* The payment whose trade number a recharge record carries.
PaymentOfTrade(trade_no) == CHOOSE r \in DOMAIN payments : TradeNoOf(r) = trade_no

\* C23: a settlement credits a card only for a payment whose related_type is
\* member_card_recharge, and the card it credits is the payment's related_id: every
\* recharge record of a settlement belongs to such a payment and to that card.
C23_CreditOnlyRelatedCard ==
    \A i \in DOMAIN records :
        records[i].transaction_no # NULL =>
            LET p == payments[PaymentOfTrade(records[i].transaction_no)]
            IN /\ p.related_type = "member_card_recharge"
               /\ p.related_id = records[i].member_card_id

\* ------------------------------------------------------------ closed trades
ClosedStatuses == {"TRADE_CLOSED", "TRADE_FINISHED"}

\* With this step session s leaves a callback handler that was given a verified
\* notification of a closed or finished trade for payment r, PENDING at that time.
ClosedCallbackReturns(s, r) ==
    /\ Returns(s)
    /\ r \in DOMAIN payments
    /\ \/ /\ pc[s] # "idle"
          /\ loc[s].h \in CallbackHandlers
          /\ loc[s].ref = r
          /\ loc[s].ts \in ClosedStatuses
          /\ loc[s].pstatus = PENDING
       \/ /\ pc[s] = "idle"
          /\ payments[r].status = PENDING
          /\ \E k \in AlipayClients, d \in Payloads :
                /\ verify_notify(k, d)
                /\ d.out_trade_no = r
                /\ d.trade_status \in ClosedStatuses
                /\ \/ handle_alipay_callback(s, k, d)
                   \/ alipay_notify(s, k, d)
                   \/ \E c \in CardIds : card_recharge_payment_notify(s, k, c, d)

\* C24: a verified callback reporting TRADE_CLOSED or TRADE_FINISHED for a PENDING
\* payment leaves the payment CANCELLED, with paid_at and trade_no unset, and changes
\* no card and no recharge record, whichever callback handler receives it.
C24_ClosedTradeCancels ==
    [][\A s \in Sessions : \A r \in Refs :
          ClosedCallbackReturns(s, r) =>
              /\ payments'[r].status = CANCELLED
              /\ payments'[r].paid_at = NULL
              /\ payments'[r].trade_no = NULL
              /\ cards' = cards
              /\ records' = records]_vars

\* ------------------------------------------------------------ poll and callback
\* With this step session s completes a status poll that found payment r PENDING and
\* the gateway reporting TRADE_SUCCESS, card c being the card the poll would credit.
PollSettles(s, r, c) ==
    /\ Returns(s)
    /\ loc[s].ref = r
    /\ loc[s].pstatus = PENDING
    /\ \/ /\ pc[s] = "svc_commit_credit"
          /\ loc[s].h = "svc_query_payment_status"
          /\ loc[s].card = c
       \/ /\ pc[s] = "poll_commit"
          /\ payments[r].related_id = c
       \/ /\ pc[s] = "card_poll_commit"
          /\ loc[s].card = c

\* C25: a status poll that sees TRADE_SUCCESS settles a PENDING payment as a verified
\* TRADE_SUCCESS callback does (C8): for a member_card_recharge payment of amount A
\* whose card is active with balance B, the payment is PAID with trade_no and paid_at
\* set, the card is at B + A with total_recharge raised by A, and the payment has its
\* one recharge record.
C25_PollSettlesLikeCallback ==
    [][\A s \in Sessions : \A r \in Refs : \A c \in CardIds :
          (/\ PollSettles(s, r, c)
           /\ payments[r].related_type = "member_card_recharge"
           /\ payments[r].related_id = c
           /\ TargetCardActive(r))
          => LET A == payments[r].amount
                 B == cards[c].balance
             IN /\ payments'[r].status = PAID
                /\ payments'[r].trade_no = TradeNoOf(r)
                /\ payments'[r].paid_at # NULL
                /\ cards'[c].balance = B + A
                /\ cards'[c].total_recharge = cards[c].total_recharge + A
                /\ records' = Append(records,
                                     RechargeRecord(c, A, B, B + A, TradeNoOf(r), NULL))]_vars

\* ------------------------------------------------------------ frozen cards
\* Session s calls the desk's recharge for card c.
RechargeCalled(s, c) ==
    /\ pc[s] = "idle"
    /\ pc'[s] # "idle"
    /\ \E a \in RechargeAmounts : recharge_member_card(s, c, a)

\* Session s calls unfreeze for card c and the call succeeds.
UnfreezeSucceeds(s, c) ==
    /\ pc[s] = "idle"
    /\ pc'[s] = "done"
    /\ unfreeze_member_card(s, c)
    /\ loc'[s].ret = "ok"

\* C26: the desk's recharge of a card that is not active (frozen) returns an error,
\* creates no record and leaves balance and total_recharge as they are; a successful
\* unfreeze leaves the card active, and the recharge of an active card is accepted
\* and succeeds with its record.
C26_FrozenCardRejectsRecharge ==
    [][\A s \in Sessions : \A c \in CardIds :
          /\ (RechargeCalled(s, c) /\ ADMIN_ID \in users /\ c \in DOMAIN cards)
                => IF cards[c].status # "active"
                   THEN /\ pc'[s] = "done"
                        /\ loc'[s].ret = "error"
                        /\ cards' = cards
                        /\ records' = records
                   ELSE pc'[s] = "recharge_commit"
          /\ UnfreezeSucceeds(s, c)
                => cards[c].status = "frozen" /\ cards'[c].status = "active"
          /\ (/\ pc[s] = "recharge_commit"
              /\ pc'[s] = "done"
              /\ loc[s].card = c
              /\ ADMIN_ID \in users
              /\ c \in DOMAIN cards)
                => /\ loc'[s].ret = "ok"
                   /\ cards'[c].balance = loc[s].bal + loc[s].amount
                   /\ Len(records') = Len(records) + 1]_vars

\* One session still holds the rejection of its recharge of the frozen card; after
\* it, the other session has unfrozen the card and its recharge has succeeded.
C26_Witness ==
    /\ pc["s1"] = "done"
    /\ loc["s1"].ret = "error"
    /\ loc["s1"].message = "card_status_abnormal"
    /\ pc["s2"] = "done"
    /\ loc["s2"].ret = "ok"
    /\ loc["s2"].message = "recharge_record"
    /\ \E c \in DOMAIN cards :
          /\ cards[c].status = "active"
          /\ cards[c].balance > 0
          /\ Len(RecordsOfCard(c)) = 1

\* ------------------------------------------------------------ a new card
\* The ids a user's successive cards can get.
IssuedCardIds == 1..MaxIssues

\* The desk opens, recharges and cancels cards and opens a card again for a user
\* whose card was cancelled; two sessions, each request to its response.
ReissueRequest(s) ==
    \/ \E u \in Users : create_member_card_upto(s, u, MaxIssues)
    \/ create_member_card_commit(s)
    \/ \E c \in IssuedCardIds, a \in RechargeAmounts : recharge_member_card(s, c, a)
    \/ recharge_member_card_commit(s)
    \/ \E c \in IssuedCardIds : cancel_member_card(s, c)
    \/ cancel_member_card_commit(s)
    \/ Finish(s)

NextReissue == \E s \in Sessions : ReissueRequest(s)

SpecReissue == Init /\ [][NextReissue]_vars

\* Session s asks for a card for user u.
CardRequested(s, u) ==
    /\ pc[s] = "idle"
    /\ pc'[s] # "idle"
    /\ create_member_card_upto(s, u, MaxIssues)

\* C27: once cancel_member_card has succeeded the user has no card, so that
\* create_member_card for that user is accepted; the card it stores is new, with
\* balance 0, total_recharge 0, status active and no recharge record, and the
\* cancelled card's records are gone with it.
C27_NewCardAfterCancel ==
    [][\A s \in Sessions :
          /\ (pc[s] = "cancel_commit" /\ pc'[s] = "done" /\ loc'[s].ret = "ok")
                => /\ loc[s].card \notin DOMAIN cards'
                   /\ \A i \in DOMAIN records' : records'[i].member_card_id # loc[s].card
          /\ \A u \in Users :
                (CardRequested(s, u) /\ ADMIN_ID \in users /\ u \in users /\ CardOfUser(u) = {})
                    => pc'[s] = "create_card_commit"
          /\ (pc[s] = "create_card_commit" /\ pc'[s] = "done" /\ CardOfUser(loc[s].user) = {})
                => /\ loc'[s].ret = "ok"
                   /\ \E c \in DOMAIN cards' \ DOMAIN cards :
                         /\ cards'[c] = NewCard(loc[s].user)
                         /\ \A i \in DOMAIN records' : records'[i].member_card_id # c]_vars

\* One session still holds the record of its recharge of the user's first card; the
\* other has since cancelled that card, which took the record with it, and opened
\* the user's second card: active, balance 0, total_recharge 0, no record.
C27_Witness ==
    /\ nextCardId = 3
    /\ DOMAIN cards = {2}
    /\ cards[2] = NewCard(1)
    /\ records = << >>
    /\ pc["s1"] = "done"
    /\ loc["s1"].message = "recharge_record"
    /\ pc["s2"] = "done"
    /\ loc["s2"].ret = "ok"

\* ------------------------------------------------------------ card status
\* Session s calls freeze (unfreeze) for card c, which exists.
FreezeCalled(s, c) ==
    /\ pc[s] = "idle"
    /\ pc'[s] = "done"
    /\ c \in DOMAIN cards
    /\ freeze_member_card(s, c)

UnfreezeCalled(s, c) ==
    /\ pc[s] = "idle"
    /\ pc'[s] = "done"
    /\ c \in DOMAIN cards
    /\ unfreeze_member_card(s, c)

\* C28: the status of a card is a two-state machine: freeze succeeds from active
\* only and leaves the card frozen, unfreeze succeeds from frozen only and leaves it
\* active, every other freeze or unfreeze is rejected and changes no card, no step
\* changes a status in any other way, and no stored card has status cancelled.
C28_CardStatusMachine ==
    [][/\ \A s \in Sessions : \A c \in CardIds :
             /\ FreezeCalled(s, c)
                   => IF cards[c].status = "active" /\ ADMIN_ID \in users
                      THEN loc'[s].ret = "ok" /\ cards'[c].status = "frozen"
                      ELSE loc'[s].ret = "error" /\ cards' = cards
             /\ UnfreezeCalled(s, c)
                   => IF cards[c].status = "frozen" /\ ADMIN_ID \in users
                      THEN loc'[s].ret = "ok" /\ cards'[c].status = "active"
                      ELSE loc'[s].ret = "error" /\ cards' = cards
       /\ \A c \in DOMAIN cards \cap DOMAIN cards' :
             cards'[c].status # cards[c].status
                => <<cards[c].status, cards'[c].status>>
                      \in {<<"active", "frozen">>, <<"frozen", "active">>}
       /\ \A c \in DOMAIN cards' : cards'[c].status \in {"active", "frozen"}]_vars

\* One session still holds the rejection of its freeze of the frozen card; the other
\* has since unfrozen the card and holds the rejection of its second unfreeze.
C28_Witness ==
    /\ pc["s1"] = "done"
    /\ loc["s1"].ret = "error"
    /\ loc["s1"].message = "not_freezable"
    /\ pc["s2"] = "done"
    /\ loc["s2"].ret = "error"
    /\ loc["s2"].message = "not_frozen"
    /\ \E c \in DOMAIN cards : cards[c].status = "active"

\* ------------------------------------------------------------ points
\* The member asks for the points of transactions on two sessions at once, each
\* request running to its response.
PointsRaceRequest(s) ==
    \/ \E t \in TransactionIds : earn_points_from_transaction(s, t)
    \/ earn_points_from_transaction_commit(s)
    \/ Finish(s)

NextPointsRace == \E s \in Sessions : PointsRaceRequest(s)

SpecPointsRace == Init /\ [][NextPointsRace]_vars

\* The transactions that have an EARN record.
Granted == {t \in DOMAIN Transactions : EarnRecords(t) # << >>}

RECURSIVE PointsOf(_)
PointsOf(ts) ==
    IF ts = {} THEN 0
    ELSE LET t == CHOOSE x \in ts : TRUE
         IN IntOfAmount(Transactions[t].amount) + PointsOf(ts \ {t})

\* C29: the points of a transaction are granted at most once, concurrent calls
\* included: a transaction has at most one EARN record, and the user's points and
\* total_points hold the integer amount of each granted transaction at most once.
C29_PointsGrantedOnce ==
    /\ \A t \in DOMAIN Transactions : Len(EarnRecords(t)) <= 1
    /\ \A u \in DOMAIN user_points :
          /\ user_points[u].points <= PointsOf(Granted)
          /\ user_points[u].total_points <= PointsOf(Granted)

\* The desk opens and cancels the member's card and adjusts the member's points, and
\* the member asks for the points of transactions; requests run one after another
\* and each one runs to its response.
NextPoints ==
    \/ \E u \in Users : create_member_card("s1", u)
    \/ create_member_card_commit("s1")
    \/ \E c \in CardIds : cancel_member_card("s1", c)
    \/ cancel_member_card_commit("s1")
    \/ \E u \in Users, d \in AdjustPoints : adjust_user_points("s1", u, d)
    \/ adjust_user_points_commit("s1")
    \/ \E t \in TransactionIds : earn_points_from_transaction("s1", t)
    \/ earn_points_from_transaction_commit("s1")
    \/ Finish("s1")

SpecPoints == Init /\ [][NextPoints]_vars

PointRecordsOf(user_id) == SelectSeq(point_records, LAMBDA r : r.user_id = user_id)

\* The user's points are not negative and are the balance of the user's latest record.
PointsMatchLatestRecord ==
    \A u \in DOMAIN user_points :
        /\ user_points[u].points >= 0
        /\ PointRecordsOf(u) # << >>
              => user_points[u].points = PointRecordsOf(u)[Len(PointRecordsOf(u))].balance

\* Session s asks for an adjustment that would leave user u with negative points.
AdjustBelowZero(s, u) ==
    /\ pc[s] = "idle"
    /\ pc'[s] # "idle"
    /\ u \in users
    /\ ADMIN_ID \in users
    /\ \E d \in AdjustPoints :
          /\ user_points[u].points + d < 0
          /\ adjust_user_points(s, u, d)

\* C30: when adjust_user_points, earn_points_from_transaction and cancel_member_card
\* run one after another, every user's points are never negative and, for a user with
\* point records, equal the balance of the latest one; an adjustment that would make
\* the points negative is rejected and changes nothing.
C30_PointsFollowRecords ==
    [][/\ PointsMatchLatestRecord'
       /\ \A s \in Sessions : \A u \in Users :
             AdjustBelowZero(s, u)
                => /\ pc'[s] = "done"
                   /\ loc'[s].ret = "error"
                   /\ db' = db]_vars

\* The member earned points, the desk took some away and cancelled the card, whose
\* record clears the rest; an adjustment below zero has just been refused.
C30_Witness ==
    /\ Len(point_records) = 3
    /\ point_records[1].type = "earn"
    /\ point_records[2].type = "adjust"
    /\ point_records[2].points < 0
    /\ point_records[3] = PointRecord(1, -point_records[2].balance, 0, "adjust", NULL, ADMIN_ID)
    /\ point_records[2].balance > 0
    /\ user_points[1] = [points |-> 0, total_points |-> 0]
    /\ cards = << >>
    /\ pc["s1"] = "done"
    /\ loc["s1"].ret = "error"
    /\ loc["s1"].message = "insufficient_points"

====
